---------------------------- MODULE Spec2Model ----------------------------
(***************************************************************************)
(* Simpleproxy: an HTTP reverse proxy.                                     *)
(*                                                                         *)
(*   src/src/config.rs  Config, Route, Config::new, Config::validate       *)
(*   src/src/main.rs    main: load the configuration, configure TLS, bind  *)
(*   src/src/proxy.rs   proxy (the request handler), choose_route,         *)
(*                      build_request_path, make_request,                  *)
(*                      reqwest_response_to_actix                          *)
(*                                                                         *)
(* Strings are sequences of one-character strings.  An Option<T> is a set  *)
(* with at most one element.  A header multimap is a sequence of           *)
(* <<name, value>> pairs.                                                  *)
(***************************************************************************)
EXTENDS Integers, Sequences, FiniteSets, TLC

VARIABLES
    file,          \* the configuration file on disk, as main finds it
    files,         \* the paths that exist on disk (TLS key material)
    config,        \* Option<Config>: the configuration main holds
    main_pc,       \* main's position
    exit_error,    \* Option: the error main logged before exit(1)
    req,           \* the inbound HttpRequest being handled
    pc,            \* proxy's position for the request
    host,          \* proxy's local `host`
    body,          \* proxy's local `body`
    route,         \* proxy's local `route`
    upstream_req,  \* Option: the request make_request sent upstream
    outcome,       \* reqwest::Result<Response> of make_request
    response,      \* Option: the HttpResponse returned to the client
    stages,        \* the stages the request went through, in order
    sent,          \* number of responses returned for the request
    calls,         \* number of outbound calls made for the request
    args,          \* arguments of a function under test
    ret            \* Option: what the function returned

vars == <<file, files, config, main_pc, exit_error, req, pc, host, body,
          route, upstream_req, outcome, response, stages, sent, calls, args, ret>>

main_vars == <<file, files, config, main_pc, exit_error>>
handler_vars == <<req, pc, host, body, route, upstream_req, outcome, response,
                  stages, sent, calls>>
fn_vars == <<args, ret>>

-----------------------------------------------------------------------------
(* Bounds of the model.                                                    *)

MaxRoutes == 3          \* routes in a table handed to choose_route
MaxCfgRoutes == 3       \* routes in a configuration file
MaxServedRoutes == 2    \* routes in the configuration the handler serves
MaxPathLen == 4         \* characters of a request path
MaxPrefixLen == 2       \* characters of a route's path_prefix
MaxHeaders == 2         \* inbound request headers
MaxRespHeaders == 2     \* upstream response headers

-----------------------------------------------------------------------------
(* Option<T> and str.                                                      *)

None == {}
Some(x) == {x}
OptionOf(S) == {None} \cup {Some(x) : x \in S}
Unwrap(o) == CHOOSE x \in o : TRUE
UnwrapOr(o, d) == IF o = None THEN d ELSE Unwrap(o)

StrUpTo(alphabet, n) == UNION {[1..k -> alphabet] : k \in 0..n}

starts_with(s, p) == Len(p) <= Len(s) /\ SubSeq(s, 1, Len(p)) = p

\* str::replace: every non-overlapping match of `from`, left to right.
RECURSIVE replace(_, _, _)
replace(s, from, to) ==
    IF from = <<>>
    THEN to \o (IF s = <<>> THEN <<>>
                ELSE <<Head(s)>> \o replace(Tail(s), from, to))
    ELSE IF Len(s) < Len(from) THEN s
    ELSE IF SubSeq(s, 1, Len(from)) = from
    THEN to \o replace(SubSeq(s, Len(from) + 1, Len(s)), from, to)
    ELSE <<Head(s)>> \o replace(Tail(s), from, to)

\* Vec::first
first(v) == IF v = <<>> THEN None ELSE Some(v[1])

-----------------------------------------------------------------------------
(* Route and route tables.                                                 *)

Upstream(i) == <<"u", ToString(i)>>

Route(h, p, d, u, s, rh) ==
    [host |-> h, path_prefix |-> p, default |-> d, upstream |-> u,
     strip_path_prefix |-> s, response_headers |-> rh]

\* The table whose i-th route takes its fields from f[i] (a record without
\* upstream) and has upstream Upstream(i).
TableOf(f) ==
    [i \in DOMAIN f |->
        Route(f[i].host, f[i].path_prefix, f[i].default, Upstream(i),
              f[i].strip_path_prefix, f[i].response_headers)]

\* The tables of at most n routes with fields from Fields.
TablesUpTo(n, Fields) ==
    UNION {{TableOf(f) : f \in [1..k -> Fields]} : k \in 0..n}

-----------------------------------------------------------------------------
(* proxy.rs: choose_route.                                                 *)

choose_route_host_needs_no_path(host_, path, routes) ==
    LET route_has_host_and_path == SelectSeq(routes, LAMBDA r :
            \E route_host \in r.host : \E route_path \in r.path_prefix :
                route_host = host_ /\ starts_with(path, route_path))
        route_has_host == SelectSeq(routes, LAMBDA r :
            \E route_host \in r.host :
                route_host = host_ /\ r.path_prefix = None)
        route_has_path == SelectSeq(routes, LAMBDA r :
            \E route_path \in r.path_prefix : starts_with(path, route_path))
        default_routes == SelectSeq(routes, LAMBDA r :
            \E default \in r.default : default)
    IN  IF first(route_has_host_and_path) # None
        THEN first(route_has_host_and_path)
        ELSE IF first(route_has_host) # None THEN first(route_has_host)
        ELSE IF first(route_has_path) # None THEN first(route_has_path)
        ELSE IF first(default_routes) # None THEN first(default_routes)
        ELSE None

choose_route_path_before_host(host_, path, routes) ==
    LET route_has_host_and_path == SelectSeq(routes, LAMBDA r :
            \E route_host \in r.host : \E route_path \in r.path_prefix :
                route_host = host_ /\ starts_with(path, route_path))
        route_has_host == SelectSeq(routes, LAMBDA r :
            \E route_host \in r.host : route_host = host_)
        route_has_path == SelectSeq(routes, LAMBDA r :
            \E route_path \in r.path_prefix : starts_with(path, route_path))
        default_routes == SelectSeq(routes, LAMBDA r :
            \E default \in r.default : default)
    IN  IF first(route_has_host_and_path) # None
        THEN first(route_has_host_and_path)
        ELSE IF first(route_has_path) # None THEN first(route_has_path)
        ELSE IF first(route_has_host) # None THEN first(route_has_host)
        ELSE IF first(default_routes) # None THEN first(default_routes)
        ELSE None

choose_route(host_, path, routes) ==
    LET route_has_host_and_path == SelectSeq(routes, LAMBDA r :
            \E route_host \in r.host : \E route_path \in r.path_prefix :
                route_host = host_ /\ starts_with(path, route_path))
        route_has_host == SelectSeq(routes, LAMBDA r :
            \E route_host \in r.host : route_host = host_)
        route_has_path == SelectSeq(routes, LAMBDA r :
            \E route_path \in r.path_prefix : starts_with(path, route_path))
        default_routes == SelectSeq(routes, LAMBDA r :
            \E default \in r.default : default)
    IN  IF first(route_has_host_and_path) # None
        THEN first(route_has_host_and_path)
        ELSE IF first(route_has_host) # None THEN first(route_has_host)
        ELSE IF first(route_has_path) # None THEN first(route_has_path)
        ELSE IF first(default_routes) # None THEN first(default_routes)
        ELSE None

-----------------------------------------------------------------------------
(* proxy.rs: build_request_path.                                           *)

build_request_path(orig_path, r) ==
    IF \E path_prefix \in r.path_prefix :
           \E strip_prefix_path \in r.strip_path_prefix : strip_prefix_path
    THEN replace(orig_path, Unwrap(r.path_prefix), <<>>)
    ELSE orig_path

-----------------------------------------------------------------------------
(* Header values and header maps.                                          *)

\* A byte of a header value that is not visible ASCII (obs-text, >= 0x80).
ObsText == "0xFF"

\* HeaderValue::to_str: the value as text, if every byte is visible ASCII.
to_str(v) == IF \A i \in 1..Len(v) : v[i] # ObsText THEN Some(v) ELSE None

\* HeaderMap::get: the first value of the name.
get(headers, name) ==
    LET of_name == SelectSeq(headers, LAMBDA h : h[1] = name)
    IN  IF of_name = <<>> THEN None ELSE Some(of_name[1][2])

\* The values of a name, in arrival order.
values_of(headers, name) ==
    LET of_name == SelectSeq(headers, LAMBDA h : h[1] = name)
    IN  [i \in 1..Len(of_name) |-> of_name[i][2]]

keys(headers) == {headers[i][1] : i \in 1..Len(headers)}

\* [String]::join
RECURSIVE join(_, _)
join(v, sep) ==
    IF v = <<>> THEN <<>>
    ELSE IF Len(v) = 1 THEN v[1]
    ELSE v[1] \o sep \o join(Tail(v), sep)

-----------------------------------------------------------------------------
(* proxy.rs: get_request_host, get_server_header.                          *)

get_request_host(r) ==
    IF get(r.headers, "host") # None
    THEN to_str(Unwrap(get(r.headers, "host")))
    ELSE r.uri_host

get_server_header(proxy_config) ==
    IF proxy_config = None THEN <<>>
    ELSE UnwrapOr(Unwrap(proxy_config).error_server_header, <<>>)

-----------------------------------------------------------------------------
(* proxy.rs: make_request.                                                 *)

\* header_map and processed_headers: one value per inbound name, the
\* readable values of the name joined with "; ".
processed_headers(headers) ==
    [name \in keys(headers) |->
        LET v == values_of(headers, name)
            v_string == SelectSeq(v, LAMBDA x : to_str(x) # None)
        IN  join(v_string, <<";", " ">>)]

x_forwarded_for_ignores_inbound(r) == UnwrapOr(r.realip_remote_addr, <<>>)

x_forwarded_for(r) ==
    LET inbound == get(r.headers, "x-forwarded-for")
        text == IF inbound = None THEN None ELSE to_str(Unwrap(inbound))
        addr == UnwrapOr(r.realip_remote_addr, <<>>)
    IN  IF text = None THEN addr
        ELSE IF Unwrap(text) # <<>> THEN Unwrap(text) \o <<" ">> \o addr
        ELSE Unwrap(text)

\* The headers the proxy sets itself, in the order it appends them.
own_headers(r, original_host) ==
    << <<"host", original_host>>,
       <<"x-real-ip", UnwrapOr(r.realip_remote_addr, <<>>)>>,
       <<"x-forwarded-for", x_forwarded_for(r)>>,
       <<"x-forwarded-proto", r.scheme>>,
       <<"x-forwarded-host", original_host>> >>

\* The outbound header map: RequestBuilder::header appends, so a name maps
\* to every value appended under it, in order.
outbound_headers(r, original_host) ==
    LET processed == processed_headers(r.headers)
        own == own_headers(r, original_host)
    IN  [name \in (DOMAIN processed \ {"host"}) \cup {own[i][1] : i \in 1..Len(own)} |->
            (IF name \in DOMAIN processed /\ name # "host"
             THEN <<processed[name]>> ELSE <<>>)
            \o values_of(own, name)]

request_url(r, path, upstream) ==
    IF r.query_string = <<>> THEN upstream \o path
    ELSE upstream \o path \o <<"?">> \o r.query_string

\* The request make_request sends.
make_request(r, path, body_, upstream, original_host) ==
    [method |-> r.method, url |-> request_url(r, path, upstream),
     headers |-> outbound_headers(r, original_host), body |-> body_]

-----------------------------------------------------------------------------
(* proxy.rs: extract_body.                                                 *)

Ok(x) == [tag |-> "Ok", val |-> x]
Err(e) == [tag |-> "Err", val |-> e]

\* The payload is a stream of chunks, each Ok(bytes) or Err.
RECURSIVE extract_body(_)
extract_body(payload) ==
    IF payload = <<>> THEN Ok(<<>>)
    ELSE IF Head(payload).tag = "Err" THEN Head(payload)
    ELSE LET rest == extract_body(Tail(payload))
         IN  IF rest.tag = "Err" THEN rest
             ELSE Ok(Head(payload).val \o rest.val)

-----------------------------------------------------------------------------
(* proxy.rs: the responses.                                                *)

NOT_FOUND == 404
BAD_GATEWAY == 502
SERVICE_UNAVAILABLE == 503

\* HttpResponse::new(status): no headers, empty body.
HttpResponse(status) == [status |-> status, headers |-> <<>>, body |-> <<>>]

\* HttpResponseBuilder::insert_header: replaces every value of the name.
insert_header(headers, k, v) ==
    SelectSeq(headers, LAMBDA h : h[1] # k) \o << <<k, v>> >>

RECURSIVE insert_headers(_, _)
insert_headers(headers, pairs) ==
    IF pairs = <<>> THEN headers
    ELSE insert_headers(insert_header(headers, Head(pairs)[1], Head(pairs)[2]),
                        Tail(pairs))

\* The route's response_headers as pairs (a HashMap: one value per name).
RECURSIVE map_pairs(_)
map_pairs(m) ==
    IF DOMAIN m = {} THEN <<>>
    ELSE LET k == CHOOSE k \in DOMAIN m : TRUE
         IN  << <<k, m[k]>> >> \o map_pairs([x \in DOMAIN m \ {k} |-> m[x]])

not_found_response(proxy_config) ==
    [status |-> NOT_FOUND,
     headers |-> << <<"server", get_server_header(proxy_config)>> >>,
     body |-> <<>>]

\* response: Err(description), or Ok of the upstream status, headers and
\* the result of reading the body.
reqwest_response_to_actix(resp, proxy_config, r) ==
    IF resp.tag = "Err"
    THEN [status |-> BAD_GATEWAY,
          headers |-> << <<"server", get_server_header(proxy_config)>> >>,
          body |-> resp.val]
    ELSE LET copied == insert_headers(<<>>, resp.val.headers)
             builder == IF r.response_headers = None THEN copied
                        ELSE insert_headers(copied,
                                 map_pairs(Unwrap(r.response_headers)))
         IN  IF resp.val.body.tag = "Err"
             THEN HttpResponse(SERVICE_UNAVAILABLE)
             ELSE [status |-> resp.val.status, headers |-> builder,
                   body |-> resp.val.body.val]

-----------------------------------------------------------------------------
(* config.rs: Config::validate.                                            *)

\* The counting loop from route i on; acc = <<host_default_count,
\* no_host_default_count>>.
RECURSIVE count_defaults(_, _, _)
count_defaults(routes, i, acc) ==
    IF i > Len(routes) THEN acc
    ELSE IF routes[i].host # None
    THEN LET h == Unwrap(routes[i].host)
         IN  count_defaults(routes, i + 1,
                 << IF h \in DOMAIN acc[1]
                    THEN [acc[1] EXCEPT ![h] = @ + 1]
                    ELSE [x \in DOMAIN acc[1] \cup {h} |->
                             IF x = h THEN 0 ELSE acc[1][x]],
                    acc[2] >>)
    ELSE count_defaults(routes, i + 1, <<acc[1], acc[2] + 1>>)

\* The results validate may return (the HashMap's iteration order decides
\* which offending host is reported).
validate(cfg, existing) ==
    IF cfg.tls # None /\ Unwrap(cfg.tls).pubkey \notin existing
    THEN {Err([kind |-> "FileNotFound", what |-> Unwrap(cfg.tls).pubkey])}
    ELSE IF cfg.tls # None /\ Unwrap(cfg.tls).privkey \notin existing
    THEN {Err([kind |-> "FileNotFound", what |-> Unwrap(cfg.tls).privkey])}
    ELSE LET counts == count_defaults(cfg.routes, 1, << <<>>, 0 >>)
             host_default_count == counts[1]
             no_host_default_count == counts[2]
             over == {h \in DOMAIN host_default_count :
                         host_default_count[h] > 1}
         IN  IF over # {}
             THEN {Err([kind |-> "InvalidConfig", what |-> Some(h)]) : h \in over}
             ELSE IF no_host_default_count > 1
             THEN {Err([kind |-> "InvalidConfig", what |-> None])}
             ELSE {Ok("unit")}

-----------------------------------------------------------------------------
(* The inputs.                                                             *)

Hosts == {<<"a">>, <<"b">>}
PathAlphabet == {"/", "a", "b"}
\* Request paths: a "/" and up to MaxPathLen - 1 more characters.
Paths == {<<"/">> \o s : s \in StrUpTo(PathAlphabet, MaxPathLen - 1)}
Prefixes == StrUpTo(PathAlphabet, MaxPrefixLen)

Unused == "unused"

\* Routes handed to choose_route.
ChoosePrefixes == {<<"/", "a">>}
ChoosePaths == {<<"/", "a", "/">>, <<"/", "b">>}
ChooseFields ==
    [host : OptionOf(Hosts), path_prefix : OptionOf(ChoosePrefixes),
     default : OptionOf(BOOLEAN), strip_path_prefix : {None},
     response_headers : {None}]

\* Routes of a configuration file.
CfgFields ==
    [host : OptionOf(Hosts), path_prefix : {None},
     default : OptionOf(BOOLEAN), strip_path_prefix : {None},
     response_headers : {None}]
PubKey == "pub.pem"
PrivKey == "priv.pem"
DefaultPubKey == "/etc/your/pub/key.pem"
DefaultPrivKey == "/etc/your/priv/key.pem"

ConfigOf(tls, routes, proxy_config) ==
    [tls |-> tls, routes |-> routes, proxy |-> proxy_config]

\* Config::default
DefaultConfig ==
    ConfigOf(Some([pubkey |-> DefaultPubKey, privkey |-> DefaultPrivKey]),
             << Route(Some(<<"foo.example.com">>), Some(<<"/", "b", "a", "r">>),
                      Some(FALSE),
                      <<"http://foo-bar.internal.example.com:8080">>,
                      Some(FALSE), None) >>,
             None)

ProxyConfigs ==
    OptionOf([error_server_header : OptionOf({<<"simpleproxy">>})])

\* Inbound requests.
InboundNames == {"host", "x-forwarded-for", "x-real-ip", "cookie"}
InboundValues == {<<>>, <<"1.2.3.4">>, <<ObsText>>}
InboundHeaders ==
    UNION {[1..k -> InboundNames \X InboundValues] : k \in 0..MaxHeaders}
Request(headers, uri_host, path, query_string, addr, scheme) ==
    [method |-> "GET", headers |-> headers, uri_host |-> uri_host,
     path |-> path, query_string |-> query_string,
     realip_remote_addr |-> addr, scheme |-> scheme]
NoRequest == Request(<<>>, None, <<>>, <<>>, None, <<>>)

\* Upstream responses.
UpstreamNames == {"set-cookie", "server"}
UpstreamValues == {<<"1">>, <<"2">>}
UpstreamHeaders ==
    UNION {[1..k -> UpstreamNames \X UpstreamValues] : k \in 0..MaxRespHeaders}
UpstreamResponse(status, headers, body_) ==
    Ok([status |-> status, headers |-> headers, body |-> body_])
BodyResults == {Ok(<<"x">>), Err(<<"body error">>)}
ResponseHeaderMaps ==
    OptionOf({<<>>} \cup {[n \in {name} |-> <<"route">>] : name \in UpstreamNames})

-----------------------------------------------------------------------------
(* Functions under test: the arguments are drawn in Init, the call is the  *)
(* action.                                                                 *)

InitMainIdle ==
    /\ file = Unused /\ files = {} /\ config = None
    /\ main_pc = Unused /\ exit_error = None

InitHandlerIdle ==
    /\ req = NoRequest /\ pc = "idle" /\ host = None /\ body = None
    /\ route = None /\ upstream_req = None /\ outcome = None
    /\ response = None /\ stages = <<>> /\ sent = 0 /\ calls = 0

InitFnIdle == args = Unused /\ ret = None

InitIdle == InitMainIdle /\ InitHandlerIdle

InitChoose ==
    /\ InitIdle
    /\ \E k \in 0..MaxRoutes : \E f \in [1..k -> ChooseFields] :
          \E h \in Hosts, p \in ChoosePaths :
              args = [host |-> h, path |-> p, routes |-> TableOf(f)]
    /\ ret = None

CallChooseRoute ==
    /\ ret = None
    /\ ret' = Some(choose_route(args.host, args.path, args.routes))
    /\ UNCHANGED <<main_vars, handler_vars, args>>

SpecChoose == InitChoose /\ [][CallChooseRoute]_vars

InitPath ==
    /\ InitIdle
    /\ args \in [orig_path : Paths,
                 route : {Route(None, p, None, Upstream(1), s, None) :
                             p \in OptionOf(Prefixes), s \in OptionOf(BOOLEAN)}]
    /\ ret = None

CallBuildRequestPath ==
    /\ ret = None
    /\ ret' = Some(build_request_path(args.orig_path, args.route))
    /\ UNCHANGED <<main_vars, handler_vars, args>>

SpecPath == InitPath /\ [][CallBuildRequestPath]_vars

InitHeaders ==
    /\ InitIdle
    /\ \E r \in {Request(h, u, <<"/">>, <<>>, a, s) :
                    h \in InboundHeaders, u \in OptionOf({<<"b">>}),
                    a \in OptionOf({<<"5.6.7.8">>}),
                    s \in {<<"http">>, <<"https">>}} :
          /\ get_request_host(r) # None
          /\ args = [req |-> r, path |-> <<"/">>, body |-> <<>>,
                     upstream |-> Upstream(1),
                     original_host |-> Unwrap(get_request_host(r))]
    /\ ret = None

CallMakeRequest ==
    /\ ret = None
    /\ ret' = Some(make_request(args.req, args.path, args.body,
                                args.upstream, args.original_host))
    /\ UNCHANGED <<main_vars, handler_vars, args>>

SpecHeaders == InitHeaders /\ [][CallMakeRequest]_vars

InitResp ==
    /\ InitIdle
    /\ args \in [response : {Err(<<"connect error">>)} \cup
                            {UpstreamResponse(st, h, b) : st \in {200, 500},
                                h \in UpstreamHeaders, b \in BodyResults},
                 proxy_config : ProxyConfigs,
                 route : {Route(None, None, Some(TRUE), Upstream(1), None, rh) :
                             rh \in ResponseHeaderMaps}]
    /\ ret = None

CallReqwestResponseToActix ==
    /\ ret = None
    /\ ret' = Some(reqwest_response_to_actix(args.response, args.proxy_config,
                                             args.route))
    /\ UNCHANGED <<main_vars, handler_vars, args>>

SpecResp == InitResp /\ [][CallReqwestResponseToActix]_vars

-----------------------------------------------------------------------------
(* main.rs: main.  Config::new, then tls::configure_tls, then the bind;    *)
(* any failure logs the error and exits.                                   *)

Exit(kind, what) ==
    /\ main_pc' = "exit"
    /\ exit_error' = Some([kind |-> kind, what |-> what])

\* main.rs 18-24, config.rs 118-132 (Config::new) and 172-184
\* (create_default, which does not validate what it writes).
ConfigNew ==
    /\ main_pc = "config_new"
    /\ IF ~file.exists
       THEN \E io_ok \in BOOLEAN :
               IF io_ok
               THEN /\ file' = [exists |-> TRUE, parses |-> TRUE,
                                content |-> DefaultConfig]
                    /\ config' = Some(DefaultConfig)
                    /\ main_pc' = "configure_tls"
                    /\ UNCHANGED exit_error
               ELSE Exit("Io", Unused) /\ UNCHANGED <<file, config>>
       ELSE IF ~file.parses
       THEN Exit("TomlDe", Unused) /\ UNCHANGED <<file, config>>
       ELSE \E res \in validate(file.content, files) :
               IF res.tag = "Err"
               THEN /\ Exit(res.val.kind, res.val.what)
                    /\ UNCHANGED <<file, config>>
               ELSE /\ config' = Some(file.content)
                    /\ main_pc' = "configure_tls"
                    /\ UNCHANGED <<file, exit_error>>
    /\ UNCHANGED <<files, handler_vars, fn_vars>>

\* main.rs 27-36 and tls.rs 21-77: the key files must exist and hold a
\* certificate and a PKCS8 key.
ConfigureTls ==
    /\ main_pc = "configure_tls"
    /\ LET tls == Unwrap(config).tls
       IN  IF tls = None THEN main_pc' = "bind" /\ UNCHANGED exit_error
           ELSE IF Unwrap(tls).pubkey \notin files
           THEN Exit("TlsFileNotFound", Unwrap(tls).pubkey)
           ELSE IF Unwrap(tls).privkey \notin files
           THEN Exit("TlsFileNotFound", Unwrap(tls).privkey)
           ELSE \E res \in {"Ok", "NoCertificates", "NoPrivateKey"} :
                   IF res = "Ok" THEN main_pc' = "bind" /\ UNCHANGED exit_error
                   ELSE Exit(res, Unused)
    /\ UNCHANGED <<file, files, config, handler_vars, fn_vars>>

\* main.rs 38-63: bind, then run the server.
Bind ==
    /\ main_pc = "bind"
    /\ \E bound \in BOOLEAN :
          IF bound THEN main_pc' = "serving" /\ UNCHANGED exit_error
          ELSE Exit("Bind", Unused)
    /\ UNCHANGED <<file, files, config, handler_vars, fn_vars>>

NextMain == ConfigNew \/ ConfigureTls \/ Bind

ConfigFiles(tlss, routes, proxies) ==
    {[exists |-> FALSE, parses |-> FALSE, content |-> DefaultConfig],
     [exists |-> TRUE, parses |-> FALSE, content |-> DefaultConfig]}
    \cup {[exists |-> TRUE, parses |-> TRUE, content |-> ConfigOf(t, r, p)] :
             t \in tlss, r \in routes, p \in proxies}

\* The start of main over the configuration files of up to MaxCfgRoutes
\* routes.
InitMain ==
    /\ file \in ConfigFiles(OptionOf({[pubkey |-> PubKey, privkey |-> PrivKey]}),
                            TablesUpTo(MaxCfgRoutes, CfgFields), {None})
    /\ files \in SUBSET {PubKey, PrivKey}
    /\ config = None /\ main_pc = "config_new" /\ exit_error = None
    /\ InitHandlerIdle /\ InitFnIdle

SpecMain == InitMain /\ [][NextMain]_vars

-----------------------------------------------------------------------------
(* proxy.rs: proxy, the handler of every request, one action per step      *)
(* between its suspension points.                                          *)

ServedFields ==
    [host : OptionOf({<<"a">>}), path_prefix : OptionOf({<<"/", "a">>}),
     default : OptionOf({TRUE}), strip_path_prefix : {Some(TRUE)},
     response_headers : {None}]

ServedHeaders ==
    {<<>>,
     << <<"host", <<"a">> >> >>,
     << <<"host", <<ObsText>> >> >>,
     << <<"host", <<"b">> >>, <<"x-real-ip", <<"1.2.3.4">> >> >>}

ServedRequests ==
    {Request(h, u, p, q, Some(<<"5.6.7.8">>), <<"http">>) :
        h \in ServedHeaders, u \in OptionOf({<<"b">>}),
        p \in {<<"/", "a", "/">>, <<"/", "b">>}, q \in {<<"q">>}}

Payloads ==
    {<<>>, <<Ok(<<"x">>), Ok(<<"y">>)>>, <<Ok(<<"x">>), Err(<<"reset">>)>>}

ServedOutcomes ==
    {Err(<<"connect error">>),
     UpstreamResponse(200, << <<"server", <<"1">> >> >>, Ok(<<"x">>)),
     UpstreamResponse(500, <<>>, Err(<<"body error">>))}

\* The handler returns resp, having got through the stages `reached` in
\* this step.
Return(resp, reached) ==
    /\ response' = Some(resp)
    /\ pc' = "done"
    /\ sent' = sent + 1
    /\ stages' = stages \o reached \o <<"ResponseTranslated", "Sent">>

\* The server hands the handler a request.
Accept ==
    /\ main_pc = "serving"
    /\ pc \in {"idle", "done"}
    /\ req' \in ServedRequests
    /\ pc' = "get_request_host"
    /\ host' = None /\ body' = None /\ route' = None
    /\ upstream_req' = None /\ outcome' = None /\ response' = None
    /\ stages' = <<"Received">> /\ sent' = 0 /\ calls' = 0
    /\ UNCHANGED <<main_vars, fn_vars>>

\* proxy.rs 18-22
GetRequestHost ==
    /\ pc = "get_request_host"
    /\ host' = get_request_host(req)
    /\ IF host' = None
       THEN Return(HttpResponse(BAD_GATEWAY), <<>>)
       ELSE /\ pc' = "extract_body"
            /\ stages' = Append(stages, "HostExtracted")
            /\ UNCHANGED <<response, sent>>
    /\ UNCHANGED <<main_vars, fn_vars, req, body, route, upstream_req,
                   outcome, calls>>

ExtractBody_goes_on_after_error ==
    /\ pc = "extract_body"
    /\ \E payload \in Payloads :
          /\ body' = Some(extract_body(payload))
          /\ pc' = "choose_route"
          /\ stages' = Append(stages, "BodyBuffered")
          /\ UNCHANGED <<response, sent>>
    /\ UNCHANGED <<main_vars, fn_vars, req, host, route, upstream_req,
                   outcome, calls>>

\* proxy.rs 24-30
ExtractBody ==
    /\ pc = "extract_body"
    /\ \E payload \in Payloads :
          /\ body' = Some(extract_body(payload))
          /\ IF Unwrap(body').tag = "Err"
             THEN Return(HttpResponse(SERVICE_UNAVAILABLE), <<>>)
             ELSE /\ pc' = "choose_route"
                  /\ stages' = Append(stages, "BodyBuffered")
                  /\ UNCHANGED <<response, sent>>
    /\ UNCHANGED <<main_vars, fn_vars, req, host, route, upstream_req,
                   outcome, calls>>

\* proxy.rs 32-40
ChooseRoute ==
    /\ pc = "choose_route"
    /\ route' = choose_route(Unwrap(host), req.path, Unwrap(config).routes)
    /\ IF route' = None
       THEN Return(not_found_response(Unwrap(config).proxy), <<"RouteResolved">>)
       ELSE /\ pc' = "make_request"
            /\ stages' = Append(stages, "RouteResolved")
            /\ UNCHANGED <<response, sent>>
    /\ UNCHANGED <<main_vars, fn_vars, req, host, body, upstream_req,
                   outcome, calls>>

\* proxy.rs 43-49 and 189-250: the path is rewritten, then the request is
\* built.
MakeRequest ==
    /\ pc = "make_request"
    /\ upstream_req' =
          Some(make_request(req, build_request_path(req.path, Unwrap(route)),
                            Unwrap(body).val, Unwrap(route).upstream,
                            Unwrap(host)))
    /\ pc' = "send"
    /\ stages' = stages \o <<"PathRewritten", "HeadersTranslated">>
    /\ UNCHANGED <<main_vars, fn_vars, req, host, body, route, outcome,
                   response, sent, calls>>

\* proxy.rs 251: the outbound call, which succeeds or fails.
Send ==
    /\ pc = "send"
    /\ outcome' \in {Some(o) : o \in ServedOutcomes}
    /\ calls' = calls + 1
    /\ pc' = "response"
    /\ stages' = Append(stages, "Forwarded")
    /\ UNCHANGED <<main_vars, fn_vars, req, host, body, route, upstream_req,
                   response, sent>>

\* proxy.rs 52
ReqwestResponseToActix ==
    /\ pc = "response"
    /\ Return(reqwest_response_to_actix(Unwrap(outcome), Unwrap(config).proxy,
                                        Unwrap(route)), <<>>)
    /\ UNCHANGED <<main_vars, fn_vars, req, host, body, route, upstream_req,
                   outcome, calls>>

NextProxy ==
    \/ Accept \/ GetRequestHost \/ ExtractBody \/ ChooseRoute
    \/ MakeRequest \/ Send \/ ReqwestResponseToActix

\* The whole program: main starts on a configuration file of up to
\* MaxServedRoutes routes and, once serving, handles requests.
Init ==
    /\ file \in ConfigFiles({None}, TablesUpTo(MaxServedRoutes, ServedFields),
                            ProxyConfigs)
    /\ files = {}
    /\ config = None /\ main_pc = "config_new" /\ exit_error = None
    /\ InitHandlerIdle /\ InitFnIdle

Next == NextMain \/ NextProxy

Spec == Init /\ [][Next]_vars

-----------------------------------------------------------------------------
(* Route resolution (checked under SpecChoose).                            *)

Min(S) == CHOOSE x \in S : \A y \in S : x <= y

\* Whether route r is in tier k for the request (h, p).
InTier(k, r, h, p) ==
    CASE k = 1 -> /\ r.host = Some(h)
                  /\ r.path_prefix # None
                  /\ starts_with(p, Unwrap(r.path_prefix))
      [] k = 2 -> r.host = Some(h)
      [] k = 3 -> r.path_prefix # None /\ starts_with(p, Unwrap(r.path_prefix))
      [] k = 4 -> r.default = Some(TRUE)

TierMembers(k, a) ==
    {i \in 1..Len(a.routes) : InTier(k, a.routes[i], a.host, a.path)}

FirstOfBestTier(a) ==
    LET nonempty == {k \in 1..4 : TierMembers(k, a) # {}}
    IN  IF nonempty = {} THEN None
        ELSE Some(a.routes[Min(TierMembers(Min(nonempty), a))])

\* C1: choose_route returns the first route, in table order, of the
\* highest-priority non-empty tier (host and path, host, path, default), and
\* None exactly when all four tiers are empty.
C1_ChooseRouteFirstOfBestTier ==
    ret # None => Unwrap(ret) = FirstOfBestTier(args)

\* C1's case: a path-tier route is returned although a default route stands
\* earlier in the table, and it is the earlier of two path-tier routes.
C1_Witness ==
    /\ ret # None /\ Unwrap(ret) # None
    /\ TierMembers(2, args) = {}
    /\ Cardinality(TierMembers(3, args)) >= 2
    /\ TierMembers(4, args) # {}
    /\ Min(TierMembers(4, args)) < Min(TierMembers(3, args))
    /\ Unwrap(Unwrap(ret)) = args.routes[Min(TierMembers(3, args))]

\* C8: choose_route never returns a default route that has no host, or the
\* host of another request, while the table holds a default route whose host
\* is the request's host.
C8_HostDefaultPreferred ==
    (/\ ret # None /\ Unwrap(ret) # None
     /\ \E i \in 1..Len(args.routes) :
            /\ args.routes[i].default = Some(TRUE)
            /\ args.routes[i].host = Some(args.host))
    => ~ (/\ Unwrap(Unwrap(ret)).default = Some(TRUE)
          /\ Unwrap(Unwrap(ret)).host # Some(args.host))

\* C8's case: a default route without host stands before a default route of
\* the request's host, no route is in the path tier, and a route of the
\* request's host is returned.
C8_Witness ==
    /\ ret # None /\ Unwrap(ret) # None
    /\ TierMembers(1, args) = {} /\ TierMembers(3, args) = {}
    /\ \E i, j \in 1..Len(args.routes) :
          /\ i < j
          /\ args.routes[i].host = None
          /\ args.routes[i].default = Some(TRUE)
          /\ args.routes[j].host = Some(args.host)
          /\ args.routes[j].default = Some(TRUE)
          /\ Unwrap(Unwrap(ret)) = args.routes[j]

-----------------------------------------------------------------------------
(* Path rewriting (checked under SpecPath).                                *)

\* s with its first occurrence of pat removed (str::replacen(pat, "", 1)).
RECURSIVE remove_first(_, _)
remove_first(s, pat) ==
    IF Len(s) < Len(pat) THEN s
    ELSE IF SubSeq(s, 1, Len(pat)) = pat
    THEN SubSeq(s, Len(pat) + 1, Len(s))
    ELSE <<Head(s)>> \o remove_first(Tail(s), pat)

\* C3: build_request_path removes only the first occurrence of path_prefix
\* when path_prefix is present and strip_path_prefix is true, and returns
\* the path unchanged otherwise.
C3_StripsFirstOccurrenceOnly ==
    ret # None =>
        Unwrap(ret) =
            IF /\ args.route.path_prefix # None
               /\ args.route.strip_path_prefix = Some(TRUE)
            THEN remove_first(args.orig_path, Unwrap(args.route.path_prefix))
            ELSE args.orig_path

-----------------------------------------------------------------------------
(* Header translation (checked under SpecHeaders).                         *)

Last(v) == v[Len(v)]
ClientIp(r) == UnwrapOr(r.realip_remote_addr, <<>>)

\* The X-Forwarded-For value make_request computed: the one it appended.
ComputedForwardedFor == Last(Unwrap(ret).headers["x-forwarded-for"])

\* C6 as stated: the inbound X-Forwarded-For followed by a space and the
\* client IP when the inbound header is present and non-empty, the inbound
\* value when it is present and empty, the client IP when it is absent.
C6_ForwardedForAsStated ==
    ret # None =>
        LET inbound == get(args.req.headers, "x-forwarded-for")
        IN  ComputedForwardedFor =
                IF inbound = None THEN ClientIp(args.req)
                ELSE IF Unwrap(inbound) # <<>>
                THEN Unwrap(inbound) \o <<" ">> \o ClientIp(args.req)
                ELSE Unwrap(inbound)

\* C6 amended: as stated when the first inbound X-Forwarded-For value is
\* visible ASCII; a value that is not is treated as an absent header, and
\* the client IP alone is sent.
C6_ForwardedForReadable ==
    ret # None =>
        LET inbound == get(args.req.headers, "x-forwarded-for")
            readable == inbound # None /\ ObsText \notin
                            {Unwrap(inbound)[i] : i \in 1..Len(Unwrap(inbound))}
        IN  ComputedForwardedFor =
                IF ~readable THEN ClientIp(args.req)
                ELSE IF Unwrap(inbound) # <<>>
                THEN Unwrap(inbound) \o <<" ">> \o ClientIp(args.req)
                ELSE Unwrap(inbound)

\* C6's case: inbound "1.2.3.4" and client IP 5.6.7.8 give "1.2.3.4 5.6.7.8".
C6_Witness ==
    /\ ret # None
    /\ get(args.req.headers, "x-forwarded-for") = Some(<<"1.2.3.4">>)
    /\ args.req.realip_remote_addr = Some(<<"5.6.7.8">>)
    /\ ComputedForwardedFor = <<"1.2.3.4", " ", "5.6.7.8">>

\* C9: each header the proxy sets itself reaches upstream exactly once, with
\* the value the proxy computed.
C9_OwnHeadersExactlyOnce ==
    ret # None =>
        LET own == own_headers(args.req, args.original_host)
        IN  \A i \in 1..Len(own) :
                Unwrap(ret).headers[own[i][1]] = <<own[i][2]>>

-----------------------------------------------------------------------------
(* Response translation (checked under SpecResp).                          *)

\* C4: on a successful upstream response the client receives the upstream
\* status and every upstream header pair, every value of a repeated name
\* included, except that a name of the route's response_headers carries the
\* route's value.
C4_EveryUpstreamHeaderCopied ==
    (/\ ret # None
     /\ args.response.tag = "Ok"
     /\ args.response.val.body.tag = "Ok")
    => LET up == args.response.val.headers
           rh == UnwrapOr(args.route.response_headers, <<>>)
           got == Unwrap(ret).headers
       IN  /\ Unwrap(ret).status = args.response.val.status
           /\ \A i \in 1..Len(up) :
                 IF up[i][1] \in DOMAIN rh
                 THEN values_of(got, up[i][1]) = <<rh[up[i][1]]>>
                 ELSE \E j \in 1..Len(got) : got[j] = up[i]

-----------------------------------------------------------------------------
(* Configuration validation (checked under SpecMain).                      *)

\* The default-route invariant is violated: two routes of the same host, or
\* two routes without host, both have default = true.
ViolatesDefaultInvariant(routes) ==
    \E i, j \in 1..Len(routes) :
        /\ i < j
        /\ routes[i].default = Some(TRUE)
        /\ routes[j].default = Some(TRUE)
        /\ routes[i].host = routes[j].host

\* C2: a configuration file whose routes violate the default-route invariant
\* never gets past Config::new: main exits before it configures TLS, binds
\* or serves.
C2_DuplicateDefaultsRejected ==
    (/\ file.exists /\ file.parses
     /\ ViolatesDefaultInvariant(file.content.routes))
    => main_pc \in {"config_new", "exit"} /\ config = None

\* C10: a configuration file without TLS section whose routes keep the
\* default-route invariant passes Config::new.
C10_ValidConfigAccepted ==
    (/\ file.exists /\ file.parses
     /\ file.content.tls = None
     /\ ~ViolatesDefaultInvariant(file.content.routes)
     /\ main_pc # "config_new")
    => config = Some(file.content)

-----------------------------------------------------------------------------
(* The request handler (checked under Spec).                               *)

\* The response was made by the proxy itself: one of the five error
\* branches of proxy.
SynthesizedError ==
    /\ pc = "done"
    /\ \/ host = None
       \/ body # None /\ Unwrap(body).tag = "Err"
       \/ host # None /\ body # None /\ Unwrap(body).tag = "Ok" /\ route = None
       \/ outcome # None /\ Unwrap(outcome).tag = "Err"
       \/ /\ outcome # None /\ Unwrap(outcome).tag = "Ok"
          /\ Unwrap(outcome).val.body.tag = "Err"

\* C5: every error response the proxy makes itself carries one Server
\* header, whose value is proxy.error_server_header or the empty string.
C5_ErrorResponsesCarryServerHeader ==
    SynthesizedError =>
        values_of(Unwrap(response).headers, "server")
            = <<get_server_header(Unwrap(config).proxy)>>

AllStages ==
    <<"Received", "HostExtracted", "BodyBuffered", "RouteResolved",
      "PathRewritten", "HeadersTranslated", "Forwarded">>

\* C7: a request goes through the stages in order; it ends, on every branch,
\* with exactly one response; the outbound call is made at most once, and
\* only after the host, the body and the route were obtained; and until the
\* response is sent the handler can always take its next step.
C7_StagesInOrderOneResponse ==
    pc # "idle" =>
        /\ sent <= 1 /\ calls <= 1
        /\ (pc = "done") = (sent = 1)
        /\ (response # None) = (sent = 1)
        /\ IF pc = "done"
           THEN \E k \in {1, 2, 4, 7} :
                   /\ stages = SubSeq(AllStages, 1, k)
                                   \o <<"ResponseTranslated", "Sent">>
                   /\ (k = 1) = (host = None)
                   /\ (k = 2) = (body # None /\ Unwrap(body).tag = "Err")
                   /\ (k = 4) = (host # None /\ body # None
                                 /\ Unwrap(body).tag = "Ok" /\ route = None)
                   /\ (k = 7) = (calls = 1)
           ELSE /\ \E k \in {1, 2, 3, 4, 6, 7} : stages = SubSeq(AllStages, 1, k)
                /\ ENABLED NextProxy
        /\ calls = 1 =>
              /\ host # None
              /\ body # None /\ Unwrap(body).tag = "Ok"
              /\ route # None

\* C7's case: a request went through every stage and was answered once,
\* after one outbound call.
C7_Witness ==
    /\ pc = "done" /\ sent = 1 /\ calls = 1
    /\ stages = AllStages \o <<"ResponseTranslated", "Sent">>
    /\ Unwrap(outcome).tag = "Ok"

=============================================================================
